---- MODULE Spec2Model ----
(***************************************************************************)
(* A model of EnvironmentalAIAgent (src/environmental_ai.py): the per-user *)
(* record store kept in memory and in data/<user>/carbon_footprint.json,   *)
(* the four tracking calls, the summary, the tips advisor, the product     *)
(* recommendations and the user preferences.                               *)
(*                                                                         *)
(* Numbers.  Emissions are kept as integers in hundredths of a kg (the     *)
(* code rounds every recorded value to 2 decimals); a value before         *)
(* rounding is a rational num/den and round(x, 2) is Round2(num, den).     *)
(* Times.  An instant is <<day, frac>>; isoformat() is modelled by the     *)
(* string it yields (a sequence of characters, the fraction left out when  *)
(* it is zero) and the code's comparisons of dates are comparisons of      *)
(* those strings.                                                          *)
(***************************************************************************)
EXTENDS Integers, Sequences, FiniteSets, TLC

VARIABLES
    now,               \* the wall clock datetime.now() reads: <<day, frac>>
    ticks,             \* how often the clock has advanced (bounded)
    disk,              \* data/<user>/carbon_footprint.json
    prefsDisk,         \* data/<user>/preferences.json
    alive,             \* alive[a]: agent instance a has been constructed
    carbon_data,       \* carbon_data[a]: self.carbon_data of instance a
    user_preferences,  \* user_preferences[a]: self.user_preferences
    lastWrite,         \* lastWrite[a]: outcome of a's last write of carbon_footprint.json
    ret,               \* the last call: what was called and what it returned
    tips               \* the get_personalized_tips call in progress

vars == <<now, ticks, disk, prefsDisk, alive, carbon_data, user_preferences,
          lastWrite, ret, tips>>

----------------------------------------------------------------------------
(* Bounds of the model *)

MaxEntries == 2
MaxTicks == 2
MaxCount == 6
MaxCountAll == 4
MaxItems == 2
StartDay == 365

Agents == {1, 2}

----------------------------------------------------------------------------
(* Sequences *)

IsPrefix(s, t) ==
    /\ Len(s) <= Len(t)
    /\ \A i \in 1..Len(s) : s[i] = t[i]

Range(s) == {s[i] : i \in 1..Len(s)}

Last(s) == s[Len(s)]

----------------------------------------------------------------------------
(* round(x, 2) of x = num/den kg, in hundredths of a kg *)

RoundDiv(n, d) ==
    LET q == n \div d
        r == n % d
    IN  IF 2 * r < d THEN q
        ELSE IF 2 * r > d THEN q + 1
        ELSE IF q % 2 = 0 THEN q ELSE q + 1

Round2(num, den) == RoundDiv(100 * num, den)

----------------------------------------------------------------------------
(* datetime.isoformat(): zero-padded fixed-width date fields, then the     *)
(* fraction, which is left out when it is zero.  Characters are numbers    *)
(* ordered as the characters are: "." before the digits.                   *)

Dot == 0 - 1

PaddedDigits(n) ==
    <<(n \div 1000) % 10, (n \div 100) % 10, (n \div 10) % 10, n % 10>>

IsoFormat(t) ==
    PaddedDigits(t[1]) \o (IF t[2] = 0 THEN <<>> ELSE <<Dot, t[2]>>)

\* today - timedelta(days=n)
MinusDays(t, n) == <<t[1] - n, t[2]>>

\* the order of instants
InstantGeq(t, u) == t[1] > u[1] \/ (t[1] = u[1] /\ t[2] >= u[2])

\* Python's s >= t on strings: lexicographic, a proper prefix is smaller
RECURSIVE StrGeqFrom(_, _, _)
StrGeqFrom(s, t, i) ==
    IF i > Len(t) THEN TRUE
    ELSE IF i > Len(s) THEN FALSE
    ELSE IF s[i] # t[i] THEN s[i] > t[i]
    ELSE StrGeqFrom(s, t, i + 1)

StrGeq(s, t) == StrGeqFrom(s, t, 1)

----------------------------------------------------------------------------
(* The record set and its JSON document *)

KeyOrder == <<"transportation", "energy", "food", "purchases">>

CategoryKeys == Range(KeyOrder)

DefaultCarbon == [k \in CategoryKeys |-> <<>>]

NoData == <<>>

\* (a dump that writes the first log only)
JsonDumpFirstOnly(d) ==
    LET keys == SelectSeq(KeyOrder, LAMBDA k : k \in DOMAIN d)
    IN  [i \in 1..(IF Len(keys) > 0 THEN 1 ELSE 0) |-> <<keys[i], d[keys[i]]>>]

\* json.dump of a dict: its members, in the dict's order
JsonDump(d) ==
    LET keys == SelectSeq(KeyOrder, LAMBDA k : k \in DOMAIN d)
    IN  [i \in 1..Len(keys) |-> <<keys[i], d[keys[i]]>>]

\* json.load of a document: the dict of its members
JsonLoad(doc) ==
    [k \in {doc[i][1] : i \in 1..Len(doc)} |->
        LET i == CHOOSE j \in 1..Len(doc) :
                    /\ doc[j][1] = k
                    /\ \A m \in (j + 1)..Len(doc) : doc[m][1] # k
        IN  doc[i][2]]

Absent == [kind |-> "absent", doc |-> <<>>]
Corrupt == [kind |-> "corrupt", doc |-> <<>>]
JsonFile(d) == [kind |-> "json", doc |-> JsonDump(d)]

IoOutcomes == {"ok", "fail_clean", "fail_partial"}

\* (a load that never reads the file)
LoadValueDefault(file, io, default_data) == default_data

\* _load_or_create_data: the value returned
LoadValue(file, io, default_data) ==
    IF file.kind = "absent" THEN default_data
    ELSE IF io = "ok" /\ file.kind = "json" THEN JsonLoad(file.doc)
    ELSE default_data

\* _load_or_create_data: the file afterwards
LoadFile(file, io, default_data) ==
    IF file.kind # "absent" THEN file
    ELSE IF io = "ok" THEN JsonFile(default_data)
    ELSE IF io = "fail_partial" THEN Corrupt
    ELSE file

\* _save_data: the file afterwards; open(path, 'w') empties the file before
\* json.dump writes, so a write that fails part-way leaves no decodable file
SaveFile(file, data, io) ==
    IF io = "ok" THEN JsonFile(data)
    ELSE IF io = "fail_partial" THEN Corrupt
    ELSE file

\* _save_data: the value returned
SaveOk(io) == io = "ok"

----------------------------------------------------------------------------
(* The last call *)

NoRet == [op |-> "none", agent |-> 0, status |-> "ok", write |-> "none",
          arg |-> <<>>, value |-> <<>>, at |-> <<0, 0>>, prev |-> "none"]

Returned(op, a, status, write, arg, value) ==
    [op |-> op, agent |-> a, status |-> status, write |-> write,
     arg |-> arg, value |-> value, at |-> now, prev |-> lastWrite[a]]

TotalEntries(d) ==
    LET n(k) == IF k \in DOMAIN d THEN Len(d[k]) ELSE 0
    IN  n("transportation") + n("energy") + n("food") + n("purchases")

Idle == [pc |-> "idle"]

CanCall(a) == alive[a] /\ tips.pc = "idle"

----------------------------------------------------------------------------
(* __init__ *)

DefaultPreferences ==
    [k \in {"diet_type", "home_type", "transportation_primary", "interests"} |->
        CASE k = "diet_type" -> "omnivore"
          [] k = "home_type" -> "apartment"
          [] k = "transportation_primary" -> "car"
          [] OTHER -> "[]"]

PrefKeyOrder ==
    <<"diet_type", "home_type", "transportation_primary", "interests", "theme", "color">>

\* json.dump and json.load of the preferences dict
PrefsDump(d) ==
    LET keys == SelectSeq(PrefKeyOrder, LAMBDA k : k \in DOMAIN d)
    IN  [i \in 1..Len(keys) |-> <<keys[i], d[keys[i]]>>]

PrefsFile(d) == [kind |-> "json", doc |-> PrefsDump(d)]

LoadPrefsFile(file, io) ==
    IF file.kind # "absent" THEN file
    ELSE IF io = "ok" THEN PrefsFile(DefaultPreferences)
    ELSE IF io = "fail_partial" THEN Corrupt
    ELSE file

SavePrefsFile(file, data, io) ==
    IF io = "ok" THEN PrefsFile(data)
    ELSE IF io = "fail_partial" THEN Corrupt
    ELSE file

\* EnvironmentalAIAgent(user_name): both files are loaded, or created
Construct(a, ioC, ioP) ==
    /\ tips.pc = "idle"
    /\ carbon_data' = [carbon_data EXCEPT ![a] = LoadValue(disk, ioC, DefaultCarbon)]
    /\ disk' = LoadFile(disk, ioC, DefaultCarbon)
    /\ user_preferences' =
          [user_preferences EXCEPT ![a] = LoadValue(prefsDisk, ioP, DefaultPreferences)]
    /\ prefsDisk' = LoadPrefsFile(prefsDisk, ioP)
    /\ alive' = [alive EXCEPT ![a] = TRUE]
    /\ lastWrite' = [lastWrite EXCEPT ![a] = "none"]
    /\ ret' = Returned("init", a, "ok", "none", <<ioC, disk.kind>>, <<>>)
    /\ UNCHANGED <<now, ticks, tips>>

----------------------------------------------------------------------------
(* The clock *)

Tick(days, frac) ==
    /\ ticks < MaxTicks
    /\ InstantGeq(<<now[1] + days, frac>>, now)
    /\ <<now[1] + days, frac>> # now
    /\ now' = <<now[1] + days, frac>>
    /\ ticks' = ticks + 1
    /\ UNCHANGED <<disk, prefsDisk, alive, carbon_data, user_preferences,
                   lastWrite, ret, tips>>

----------------------------------------------------------------------------
(* Appending an entry and saving: the tail of every tracking call *)

\* (a tracking call that a failed save aborts, the entry taken back)
AppendAndSaveOrAbort(a, op, key, arg, entry, io) ==
    IF key \notin DOMAIN carbon_data[a] \/ io # "ok"
    THEN /\ ret' = Returned(op, a, "fault", io, arg, <<>>)
         /\ UNCHANGED <<carbon_data, disk, lastWrite>>
    ELSE LET data == [carbon_data[a] EXCEPT ![key] = Append(@, entry)]
         IN  /\ carbon_data' = [carbon_data EXCEPT ![a] = data]
             /\ disk' = SaveFile(disk, data, io)
             /\ lastWrite' = [lastWrite EXCEPT ![a] = io]
             /\ ret' = Returned(op, a, "ok", io, arg, entry)

\* self.carbon_data[key].append(entry); self._save_data(...); return message.
\* A record set without the key raises KeyError before anything is changed.
AppendAndSave(a, op, key, arg, entry, io) ==
    IF key \notin DOMAIN carbon_data[a]
    THEN /\ ret' = Returned(op, a, "fault", "none", arg, <<>>)
         /\ UNCHANGED <<carbon_data, disk, lastWrite>>
    ELSE LET data == [carbon_data[a] EXCEPT ![key] = Append(@, entry)]
         IN  /\ carbon_data' = [carbon_data EXCEPT ![a] = data]
             /\ disk' = SaveFile(disk, data, io)
             /\ lastWrite' = [lastWrite EXCEPT ![a] = io]
             /\ ret' = Returned(op, a, "ok", io, arg, entry)

\* (a rejection that comes after the entry was appended)
RejectedButRecorded(a, op, arg) ==
    /\ ret' = Returned(op, a, "rejected", "none", arg, <<>>)
    /\ carbon_data' = [carbon_data EXCEPT ![a] =
          [k \in DOMAIN @ |-> Append(@[k], [date |-> IsoFormat(now), call |-> op])]]
    /\ UNCHANGED <<disk, lastWrite>>

\* return f"Sorry, ...": the call ends with a message, nothing recorded
Rejected(a, op, arg) ==
    /\ ret' = Returned(op, a, "rejected", "none", arg, <<>>)
    /\ UNCHANGED <<carbon_data, disk, lastWrite>>

----------------------------------------------------------------------------
(* track_transportation *)

\* kg CO2 per km, in thousandths
TransportFactors ==
    [m \in {"car", "bus", "train", "bicycle", "walk", "plane"} |->
        CASE m = "car" -> 192
          [] m = "bus" -> 105
          [] m = "train" -> 41
          [] m = "plane" -> 255
          [] OTHER -> 0]

Max(x, y) == IF x >= y THEN x ELSE y

TransportEmissions(mode, distance, passengers) ==
    IF mode = "car"
    THEN Round2(TransportFactors[mode] * distance, 1000 * Max(1, passengers))
    ELSE Round2(TransportFactors[mode] * distance, 1000)

TrackTransportation(a, mode, distance, passengers, io) ==
    /\ CanCall(a)
    /\ TotalEntries(carbon_data[a]) < MaxEntries
    /\ IF mode \notin DOMAIN TransportFactors
       THEN Rejected(a, "track_transportation", <<mode>>)
       ELSE AppendAndSave(a, "track_transportation", "transportation", <<mode>>,
                [date |-> IsoFormat(now), mode |-> mode, distance |-> distance,
                 passengers |-> passengers,
                 emissions |-> TransportEmissions(mode, distance, passengers)], io)
    /\ UNCHANGED <<now, ticks, prefsDisk, alive, user_preferences, tips>>

----------------------------------------------------------------------------
(* track_energy_usage *)

\* kg CO2 per kWh, in thousandths
EnergyFactors ==
    [t \in {"electricity", "natural_gas", "heating_oil", "propane", "renewable"} |->
        CASE t = "electricity" -> 233
          [] t = "natural_gas" -> 181
          [] t = "heating_oil" -> 249
          [] t = "propane" -> 215
          [] OTHER -> 15]

\* the amount in kWh, in ten-thousandths: therms of natural gas are converted
EnergyAmount(type, amount, unit) ==
    IF unit = "therms" /\ type = "natural_gas" THEN amount * 293001
    ELSE amount * 10000

EnergyUnit(type, unit) ==
    IF unit = "therms" /\ type = "natural_gas" THEN "kWh" ELSE unit

\* round(x, 2) of x = factor * amount4 / 10^7 kg, the common factor 100 cancelled
EnergyEmissions(type, amount4) ==
    RoundDiv(EnergyFactors[type] * amount4, 100000)

TrackEnergyUsage(a, type, amount, unit, io) ==
    /\ CanCall(a)
    /\ TotalEntries(carbon_data[a]) < MaxEntries
    /\ IF type \notin DOMAIN EnergyFactors
       THEN Rejected(a, "track_energy_usage", <<type, unit>>)
       ELSE IF EnergyUnit(type, unit) # "kWh"
       THEN Rejected(a, "track_energy_usage", <<type, unit>>)
       ELSE AppendAndSave(a, "track_energy_usage", "energy", <<type, unit>>,
                [date |-> IsoFormat(now), type |-> type,
                 amount |-> EnergyAmount(type, amount, unit),
                 unit |-> EnergyUnit(type, unit),
                 emissions |-> EnergyEmissions(type, EnergyAmount(type, amount, unit))],
                io)
    /\ UNCHANGED <<now, ticks, prefsDisk, alive, user_preferences, tips>>

----------------------------------------------------------------------------
(* track_food *)

\* kg CO2e per kg, in tenths
FoodFactors ==
    [t \in {"beef", "lamb", "pork", "chicken", "fish", "eggs", "rice", "milk",
            "cheese", "vegetables", "fruits", "beans", "nuts"} |->
        CASE t = "beef" -> 270
          [] t = "lamb" -> 392
          [] t = "pork" -> 121
          [] t = "chicken" -> 69
          [] t = "fish" -> 61
          [] t = "eggs" -> 48
          [] t = "rice" -> 27
          [] t = "milk" -> 19
          [] t = "cheese" -> 135
          [] t = "vegetables" -> 20
          [] t = "fruits" -> 11
          [] t = "beans" -> 20
          [] OTHER -> 23]

\* item.get(key, default)
Get(item, key, default) == IF key \in DOMAIN item THEN item[key] ELSE default

\* item_emissions of one item, an amount in hundredths of a kg: the value is
\* FoodItemNum(item) / FoodDen kg
FoodDen == 10 * 100 * 10 * 10

FoodItemNum(item) ==
    FoodFactors[Get(item, "type", "None")] * Get(item, "amount", 0)
        * (IF Get(item, "local", FALSE) THEN 8 ELSE 10)
        * (IF Get(item, "organic", FALSE) THEN 9 ELSE 10)

TrackedItem(item) ==
    [type |-> Get(item, "type", "None"),
     amount |-> Get(item, "amount", 0),
     local |-> Get(item, "local", FALSE),
     organic |-> Get(item, "organic", FALSE),
     emissions |-> Round2(FoodItemNum(item), FoodDen)]

\* (a loop that records an unrecognized item with no emissions)
RECURSIVE FoodLoopNoSkip(_, _, _, _)
FoodLoopNoSkip(items, i, total, tracked) ==
    IF i > Len(items) THEN <<total, tracked>>
    ELSE IF Get(items[i], "type", "None") \notin DOMAIN FoodFactors
    THEN FoodLoopNoSkip(items, i + 1, total,
            Append(tracked, [type |-> Get(items[i], "type", "None"),
                             amount |-> Get(items[i], "amount", 0),
                             local |-> Get(items[i], "local", FALSE),
                             organic |-> Get(items[i], "organic", FALSE),
                             emissions |-> 0]))
    ELSE FoodLoopNoSkip(items, i + 1, total + FoodItemNum(items[i]),
                        Append(tracked, TrackedItem(items[i])))

\* the loop over items: <<total_emissions (numerator), tracked_items>> from item i on
RECURSIVE FoodLoopFrom(_, _, _, _)
FoodLoopFrom(items, i, total, tracked) ==
    IF i > Len(items) THEN <<total, tracked>>
    ELSE IF Get(items[i], "type", "None") \notin DOMAIN FoodFactors
    THEN FoodLoopFrom(items, i + 1, total, tracked)
    ELSE FoodLoopFrom(items, i + 1, total + FoodItemNum(items[i]),
                      Append(tracked, TrackedItem(items[i])))

FoodLoop(items) == FoodLoopFrom(items, 1, 0, <<>>)

TrackFood(a, items, io) ==
    /\ CanCall(a)
    /\ TotalEntries(carbon_data[a]) < MaxEntries
    /\ AppendAndSave(a, "track_food", "food", items,
            [date |-> IsoFormat(now), items |-> FoodLoop(items)[2],
             total_emissions |-> Round2(FoodLoop(items)[1], FoodDen)], io)
    /\ UNCHANGED <<now, ticks, prefsDisk, alive, user_preferences, tips>>

----------------------------------------------------------------------------
(* track_purchase *)

\* kg CO2e per dollar, in tenths
PurchaseFactors ==
    [c \in {"clothing", "electronics", "furniture", "household", "hobby"} |->
        CASE c = "clothing" -> 5
          [] c = "electronics" -> 7
          [] c = "furniture" -> 8
          [] c = "household" -> 4
          [] OTHER -> 3]

\* str.lower() on the category names the model passes
Lower(s) ==
    CASE s = "Clothing" -> "clothing"
      [] s = "ELECTRONICS" -> "electronics"
      [] s = "Garden" -> "garden"
      [] OTHER -> s

\* (a category looked up as it was given, not lower-cased)
PurchaseCategoryAsGiven(category) ==
    IF category \notin DOMAIN PurchaseFactors THEN "household"
    ELSE category

\* category = category.lower(); if category not in emissions_factors:
\* category = "household"
PurchaseCategory(category) ==
    IF Lower(category) \notin DOMAIN PurchaseFactors THEN "household"
    ELSE Lower(category)

PurchaseEmissions(category, price, eco_friendly) ==
    Round2(PurchaseFactors[category] * price * (IF eco_friendly THEN 7 ELSE 10), 100)

TrackPurchase(a, category, description, price, eco_friendly, io) ==
    /\ CanCall(a)
    /\ TotalEntries(carbon_data[a]) < MaxEntries
    /\ AppendAndSave(a, "track_purchase", "purchases", <<category>>,
            [date |-> IsoFormat(now), category |-> PurchaseCategory(category),
             description |-> description, price |-> price,
             eco_friendly |-> eco_friendly,
             emissions |-> PurchaseEmissions(PurchaseCategory(category), price,
                                             eco_friendly)], io)
    /\ UNCHANGED <<now, ticks, prefsDisk, alive, user_preferences, tips>>

----------------------------------------------------------------------------
(* get_carbon_footprint_summary *)

PeriodDays ==
    [p \in {"week", "month", "year"} |->
        CASE p = "week" -> 7 [] p = "month" -> 30 [] OTHER -> 365]

\* the emissions an entry of a log counts with
EntryEmissions(key, entry) ==
    IF key = "food" THEN entry.total_emissions ELSE entry.emissions

\* (a window that leaves out its start)
InWindowStrict(entry, start_date) ==
    entry.date # start_date /\ StrGeq(entry.date, start_date)

\* entry["date"] >= start_date, on the strings
InWindow(entry, start_date) == StrGeq(entry.date, start_date)

\* the loop over one log: the sum from entry i on
RECURSIVE SumLogFrom(_, _, _, _)
SumLogFrom(key, log, start_date, i) ==
    IF i > Len(log) THEN 0
    ELSE (IF InWindow(log[i], start_date) THEN EntryEmissions(key, log[i]) ELSE 0)
         + SumLogFrom(key, log, start_date, i + 1)

SumLog(key, log, start_date) == SumLogFrom(key, log, start_date, 1)

\* the summary of a record set that holds the four logs
Summary(data, today, period) ==
    LET start_date == IsoFormat(MinusDays(today, PeriodDays[period]))
        t == SumLog("transportation", data["transportation"], start_date)
        e == SumLog("energy", data["energy"], start_date)
        f == SumLog("food", data["food"], start_date)
        p == SumLog("purchases", data["purchases"], start_date)
    IN  [transportation |-> Round2(t, 100),
         energy |-> Round2(e, 100),
         food |-> Round2(f, 100),
         purchases |-> Round2(p, 100),
         total |-> Round2(t + e + f + p, 100)]

GetCarbonFootprintSummary(a, period) ==
    /\ CanCall(a)
    /\ IF period \notin DOMAIN PeriodDays
       THEN Rejected(a, "get_carbon_footprint_summary", <<period>>)
       ELSE IF ~(CategoryKeys \subseteq DOMAIN carbon_data[a])
       THEN /\ ret' = Returned("get_carbon_footprint_summary", a, "fault", "none",
                               <<period>>, <<>>)
            /\ UNCHANGED <<carbon_data, disk, lastWrite>>
       ELSE /\ ret' = Returned("get_carbon_footprint_summary", a, "ok", "none",
                               <<period>>, Summary(carbon_data[a], now, period))
            /\ UNCHANGED <<carbon_data, disk, lastWrite>>
    /\ UNCHANGED <<now, ticks, prefsDisk, alive, user_preferences, tips>>

----------------------------------------------------------------------------
(* get_personalized_tips: the call runs step by step, tips holds its place *)

TipsPerCategory == 5

\* self.eco_tips: tip i of a category is <<category, i>>; the 20 strings differ
EcoTips == [k \in CategoryKeys |-> [i \in 1..TipsPerCategory |-> <<k, i>>]]

None == "None"

\* (the categories left in the order of the summary's keys)
UnsortedCategories(summary) == KeyOrder

\* sorted(..., key=emissions, reverse=True): stable, so equal emissions keep
\* the order of the summary's keys
SortedCategories(summary) ==
    LET idx(k) == CHOOSE i \in 1..Len(KeyOrder) : KeyOrder[i] = k
        pos(k) == 1 + Cardinality({j \in CategoryKeys :
                        \/ summary[j] > summary[k]
                        \/ summary[j] = summary[k] /\ idx(j) < idx(k)})
    IN  [i \in 1..Len(KeyOrder) |-> CHOOSE k \in CategoryKeys : pos(k) = i]

StartTips(a, caller, arg, category, count) ==
    IF ~(CategoryKeys \subseteq DOMAIN carbon_data[a])
    THEN /\ ret' = Returned(caller, a, "fault", "none", arg, <<>>)
         /\ tips' = Idle
    ELSE /\ tips' = [pc |-> "prioritize", agent |-> a, caller |-> caller, arg |-> arg,
                     category |-> category, count |-> count,
                     categories |-> IF category # None THEN <<category>> ELSE KeyOrder,
                     sorted |-> SortedCategories(Summary(carbon_data[a], now, "month")),
                     i |-> 1, selected |-> <<>>]
         /\ ret' = Returned(caller, a, "running", "none", arg, <<>>)

GetPersonalizedTips(a, category, count) ==
    /\ CanCall(a)
    /\ IF category # None /\ category \notin DOMAIN EcoTips
       THEN /\ ret' = Returned("get_personalized_tips", a, "rejected", "none",
                               <<category, count>>, <<"Sorry">>)
            /\ tips' = tips
       ELSE StartTips(a, "get_personalized_tips", <<category, count>>, category, count)
    /\ UNCHANGED <<now, ticks, disk, prefsDisk, alive, carbon_data, user_preferences,
                   lastWrite>>

\* one pass of the loop over sorted_categories; n is the tip drawn
PrioritizeNext(t, selected) ==
    IF Len(selected) >= t.count \/ t.i = Len(t.sorted)
    THEN [t EXCEPT !.pc = "fill", !.i = 0, !.selected = selected]
    ELSE [t EXCEPT !.i = @ + 1, !.selected = selected]

PrioritizeStep(n) ==
    /\ tips.pc = "prioritize"
    /\ IF tips.sorted[tips.i] \in Range(tips.categories)
       THEN tips' = PrioritizeNext(tips,
                        Append(tips.selected, EcoTips[tips.sorted[tips.i]][n]))
       ELSE tips' = IF tips.i = Len(tips.sorted)
                    THEN [tips EXCEPT !.pc = "fill", !.i = 0]
                    ELSE [tips EXCEPT !.i = @ + 1]
    /\ UNCHANGED <<now, ticks, disk, prefsDisk, alive, carbon_data, user_preferences,
                   lastWrite, ret>>

\* one pass of the while loop: c and n are the category and the tip drawn
FillStep(c, n) ==
    /\ tips.pc = "fill"
    /\ Len(tips.selected) < tips.count
    /\ c \in 1..Len(tips.categories)
    /\ LET tip == EcoTips[tips.categories[c]][n]
       IN  tips' = IF tip \notin Range(tips.selected)
                   THEN [tips EXCEPT !.selected = Append(@, tip)]
                   ELSE tips
    /\ UNCHANGED <<now, ticks, disk, prefsDisk, alive, carbon_data, user_preferences,
                   lastWrite, ret>>

\* the while loop's exit and the return
TipsReturn ==
    /\ tips.pc = "fill"
    /\ Len(tips.selected) >= tips.count
    /\ ret' = Returned(tips.caller, tips.agent, "ok", "none", tips.arg, tips.selected)
    /\ tips' = Idle
    /\ UNCHANGED <<now, ticks, disk, prefsDisk, alive, carbon_data, user_preferences,
                   lastWrite>>

----------------------------------------------------------------------------
(* generate_report: the summary, then get_personalized_tips(count=5); the   *)
(* text is rendered from the two                                            *)

ReportTipCount == 5

GenerateReport(a, period) ==
    /\ CanCall(a)
    /\ IF period \notin DOMAIN PeriodDays
       THEN /\ ret' = Returned("generate_report", a, "rejected", "none", <<period>>, <<>>)
            /\ tips' = tips
       ELSE StartTips(a, "generate_report", <<period>>, None, ReportTipCount)
    /\ UNCHANGED <<now, ticks, disk, prefsDisk, alive, carbon_data, user_preferences,
                   lastWrite>>

----------------------------------------------------------------------------
(* recommend_sustainable_products *)

ProductKeys == <<"home", "kitchen", "personal">>

ProductsPerCategory == 3

\* self.sustainable_products: product i of a category is <<category, i>>
SustainableProducts ==
    [k \in Range(ProductKeys) |-> [i \in 1..ProductsPerCategory |-> <<k, i>>]]

Min(x, y) == IF x <= y THEN x ELSE y

\* the loop over categories from category i on; shuffle is the order
\* np.random.shuffle leaves a category's products in
RECURSIVE RecommendFrom(_, _, _, _, _)
RecommendFrom(categories, i, count, shuffle, recommendations) ==
    IF i > Len(categories) THEN recommendations
    ELSE LET products == SustainableProducts[categories[i]]
             available == [j \in 1..Len(products) |-> products[shuffle[j]]]
             more == recommendations
                        \o SubSeq(available, 1, Min(count, Len(available)))
         IN  IF Len(more) >= count THEN SubSeq(more, 1, count)
             ELSE RecommendFrom(categories, i + 1, count, shuffle, more)

RecommendSustainableProducts(a, category, count, shuffle) ==
    /\ CanCall(a)
    /\ IF category # None /\ category \notin DOMAIN SustainableProducts
       THEN ret' = Returned("recommend_sustainable_products", a, "rejected", "none",
                            <<category, count>>, <<"Sorry">>)
       ELSE ret' = Returned("recommend_sustainable_products", a, "ok", "none",
                            <<category, count>>,
                            RecommendFrom(IF category # None THEN <<category>>
                                          ELSE ProductKeys, 1, count, shuffle, <<>>))
    /\ UNCHANGED <<now, ticks, disk, prefsDisk, alive, carbon_data, user_preferences,
                   lastWrite, tips>>

----------------------------------------------------------------------------
(* set_user_preferences: preferences is the sequence of the dict's items *)

\* (a merge that takes every key, as dict.update does)
RECURSIVE MergeAllFrom(_, _, _)
MergeAllFrom(prefs, preferences, i) ==
    IF i > Len(preferences) THEN prefs
    ELSE MergeAllFrom([k \in DOMAIN prefs \cup {preferences[i][1]} |->
                          IF k = preferences[i][1] THEN preferences[i][2] ELSE prefs[k]],
                      preferences, i + 1)

\* the loop over preferences.items() from item i on
RECURSIVE MergeFrom(_, _, _)
MergeFrom(prefs, preferences, i) ==
    IF i > Len(preferences) THEN prefs
    ELSE IF preferences[i][1] \in DOMAIN prefs
    THEN MergeFrom([prefs EXCEPT ![preferences[i][1]] = preferences[i][2]],
                   preferences, i + 1)
    ELSE MergeFrom(prefs, preferences, i + 1)

SetUserPreferences(a, preferences, io) ==
    /\ CanCall(a)
    /\ user_preferences' =
          [user_preferences EXCEPT ![a] = MergeFrom(@, preferences, 1)]
    /\ prefsDisk' = SavePrefsFile(prefsDisk, user_preferences'[a], io)
    /\ ret' = Returned("set_user_preferences", a, "ok", io, preferences, <<>>)
    /\ UNCHANGED <<now, ticks, disk, alive, carbon_data, lastWrite, tips>>

----------------------------------------------------------------------------
(* The store before the first construction *)

\* an entry an earlier run of the program tracked and wrote
EarlierEntry ==
    [date |-> IsoFormat(<<StartDay - 1, 0>>), mode |-> "bus", distance |-> 10,
     passengers |-> 1, emissions |-> TransportEmissions("bus", 10, 1)]

EarlierStore == [DefaultCarbon EXCEPT !["transportation"] = <<EarlierEntry>>]

\* a decodable file that is no record set: two of the four logs are missing
ForeignStore == [k \in {"transportation", "energy"} |-> <<>>]

InitWith(disks, prefDisks) ==
    /\ now = <<StartDay, 0>>
    /\ ticks = 0
    /\ disk \in disks
    /\ prefsDisk \in prefDisks
    /\ alive = [a \in Agents |-> FALSE]
    /\ carbon_data = [a \in Agents |-> NoData]
    /\ user_preferences = [a \in Agents |-> NoData]
    /\ lastWrite = [a \in Agents |-> "none"]
    /\ ret = NoRet
    /\ tips = Idle

\* the state EnvironmentalAIAgent(user_name) leaves on a store that held nothing
InitConstructed ==
    /\ now = <<StartDay, 0>>
    /\ ticks = 0
    /\ disk = JsonFile(DefaultCarbon)
    /\ prefsDisk = PrefsFile(DefaultPreferences)
    /\ alive = [a \in Agents |-> a = 1]
    /\ carbon_data = [a \in Agents |-> IF a = 1 THEN DefaultCarbon ELSE NoData]
    /\ user_preferences = [a \in Agents |-> IF a = 1 THEN DefaultPreferences ELSE NoData]
    /\ lastWrite = [a \in Agents |-> "none"]
    /\ ret = [NoRet EXCEPT !.op = "init", !.agent = 1, !.arg = <<"ok", "absent">>,
                           !.at = <<StartDay, 0>>]
    /\ tips = Idle

----------------------------------------------------------------------------
(* Spec: one agent instance at a time over a store that fails; every call   *)
(* reads the same clock                                                     *)

Init ==
    InitWith({Absent, Corrupt, JsonFile(EarlierStore), JsonFile(ForeignStore)}, {Absent})

FruitItem == [type |-> "fruits", amount |-> 14, local |-> FALSE, organic |-> FALSE]

VegetableItem == [type |-> "vegetables", amount |-> 120, local |-> TRUE, organic |-> TRUE]

TofuItem == [type |-> "tofu", amount |-> 30, local |-> TRUE, organic |-> FALSE]

Next ==
    \/ \E io \in IoOutcomes : Construct(1, io, "ok")
    \/ \E mode \in {"car", "rocket"}, io \in IoOutcomes :
          TrackTransportation(1, mode, 10, 2, io)
    \/ \E e \in {<<"natural_gas", "therms">>, <<"coal", "kWh">>,
                 <<"electricity", "therms">>}, io \in IoOutcomes :
          TrackEnergyUsage(1, e[1], 1, e[2], io)
    \/ \E io \in IoOutcomes : TrackFood(1, <<FruitItem>>, io)
    \/ \E io \in IoOutcomes : TrackPurchase(1, "Garden", "spade", 10, TRUE, io)
    \/ \E period \in {"month", "decade"} : GetCarbonFootprintSummary(1, period)
    \/ GetPersonalizedTips(1, "water", 3)
    \/ GenerateReport(1, "decade")
    \/ \E category \in {None, "garden"} :
          RecommendSustainableProducts(1, category, 2, <<3, 1, 2>>)

Spec == Init /\ [][Next]_vars

----------------------------------------------------------------------------
(* SummarySpec: tracking and summaries while the clock advances *)

SummaryInit == InitConstructed

\* the clock steps: within the day, and by each period's length
ClockSteps == {<<0, 5>>, <<7, 0>>, <<30, 0>>, <<365, 0>>}

SummaryNext ==
    \/ TrackTransportation(1, "car", 10, 2, "ok")
    \/ TrackEnergyUsage(1, "electricity", 1, "kWh", "ok")
    \/ TrackFood(1, <<VegetableItem>>, "ok")
    \/ TrackPurchase(1, "hobby", "yarn", 10, FALSE, "ok")
    \/ \E period \in DOMAIN PeriodDays : GetCarbonFootprintSummary(1, period)
    \/ \E step \in ClockSteps : Tick(step[1], step[2])

SummarySpec == SummaryInit /\ [][SummaryNext]_vars

----------------------------------------------------------------------------
(* TipsSpec: get_personalized_tips, step by step, over a few record sets *)

TipsInit == InitConstructed

TipsNext ==
    \/ TrackTransportation(1, "car", 10, 2, "ok")
    \/ TrackPurchase(1, "hobby", "yarn", 10, FALSE, "ok")
    \/ \E category \in {"transportation", "food"}, count \in 0..MaxCount :
          GetPersonalizedTips(1, category, count)
    \/ \E count \in 0..MaxCountAll : GetPersonalizedTips(1, None, count)
    \/ \E n \in 1..TipsPerCategory : PrioritizeStep(n)
    \/ \E c \in 1..Len(KeyOrder), n \in 1..TipsPerCategory : FillStep(c, n)
    \/ TipsReturn

TipsSpec == TipsInit /\ [][TipsNext]_vars

----------------------------------------------------------------------------
(* FoodSpec: track_food over item lists *)

FoodInit == InitConstructed

FoodItems == {FruitItem, VegetableItem, TofuItem}

RECURSIVE SeqsUpTo(_, _)
SeqsUpTo(S, n) ==
    IF n = 0 THEN {<<>>}
    ELSE LET shorter == SeqsUpTo(S, n - 1)
         IN  shorter \cup {Append(q, x) : q \in shorter, x \in S}

FoodNext ==
    \E items \in SeqsUpTo(FoodItems, MaxItems), io \in {"ok", "fail_clean"} :
        TrackFood(1, items, io)

FoodSpec == FoodInit /\ [][FoodNext]_vars

----------------------------------------------------------------------------
(* PrefsSpec: set_user_preferences over a preferences file that fails *)

\* a preferences file of another version: one known key, one unknown
ForeignPreferences == [k \in {"diet_type", "theme"} |-> IF k = "theme" THEN "dark" ELSE "vegan"]

PrefsInit == InitWith({Absent}, {Absent, PrefsFile(ForeignPreferences)})

PrefUpdates ==
    {<<>>,
     <<<<"diet_type", "vegetarian">>>>,
     <<<<"color", "green">>>>,
     <<<<"home_type", "house">>, <<"color", "green">>>>,
     <<<<"theme", "light">>, <<"interests", "[cycling]">>>>}

PrefsNext ==
    \/ \E io \in IoOutcomes : Construct(1, "ok", io)
    \/ \E preferences \in PrefUpdates, io \in IoOutcomes :
          SetUserPreferences(1, preferences, io)

PrefsSpec == PrefsInit /\ [][PrefsNext]_vars

----------------------------------------------------------------------------
(* PurchaseSpec: track_purchase over categories in any case, known or not, *)
(* with saves that fail                                                    *)

PurchaseInit == InitConstructed

PurchaseInputs == {"Clothing", "ELECTRONICS", "Garden", "hobby"}

PurchaseNext ==
    \E category \in PurchaseInputs, eco_friendly \in BOOLEAN,
       io \in {"ok", "fail_clean"} :
        TrackPurchase(1, category, "item", 10, eco_friendly, io)

PurchaseSpec == PurchaseInit /\ [][PurchaseNext]_vars

----------------------------------------------------------------------------
(* ConcurrentSpec: two agent instances of one user, each holding its own    *)
(* self.carbon_data, track in any order over one carbon_footprint.json;     *)
(* every read and write succeeds.  Instance a tracks journeys of 10 * a km  *)
(* and a kWh, so the entries of the two instances differ.                   *)

ConcurrentInit == InitConstructed

ConcurrentNext ==
    \/ \E a \in Agents : Construct(a, "ok", "ok")
    \/ \E a \in Agents : TrackTransportation(a, "car", 10 * a, 2, "ok")
    \/ \E a \in Agents : TrackEnergyUsage(a, "electricity", a, "kWh", "ok")

ConcurrentSpec == ConcurrentInit /\ [][ConcurrentNext]_vars

----------------------------------------------------------------------------
(* RankSpec: get_personalized_tips over record sets whose categories rank   *)
(* differently: a purchase outweighs a journey, and an entry a month old    *)
(* no longer counts.  The clock advances between calls.                     *)

RankInit == InitConstructed

\* the tips np.random.randint draws here: the first and the last of a pool
RankDraws == {1, TipsPerCategory}

RankNext ==
    \/ TrackTransportation(1, "car", 10, 2, "ok")
    \/ TrackPurchase(1, "hobby", "yarn", 10, FALSE, "ok")
    \/ tips.pc = "idle" /\ Tick(PeriodDays["month"] + 1, 0)
    \/ \E count \in 1..Len(KeyOrder) : GetPersonalizedTips(1, None, count)
    \/ \E count \in 1..2 : GetPersonalizedTips(1, "food", count)
    \/ \E n \in RankDraws : PrioritizeStep(n)
    \/ \E c \in 1..Len(KeyOrder), n \in RankDraws : FillStep(c, n)
    \/ TipsReturn

RankSpec == RankInit /\ [][RankNext]_vars

----------------------------------------------------------------------------
(* Properties *)

TrackOps == {"track_transportation", "track_energy_usage", "track_food",
             "track_purchase"}

TrackKey(op) ==
    CASE op = "track_transportation" -> "transportation"
      [] op = "track_energy_usage" -> "energy"
      [] op = "track_food" -> "food"
      [] OTHER -> "purchases"

RECURSIVE SumOver(_, _)
SumOver(f, S) ==
    IF S = {} THEN 0
    ELSE LET x == CHOOSE y \in S : TRUE
         IN  f[x] + SumOver(f, S \ {x})

\* C1: get_personalized_tips terminates: wherever the call stands in the fill
\* loop, either the loop's exit test passes or some draw of a category and a
\* tip appends a tip (a draw is uniform, so such a state is left with
\* probability 1, while a state in which no draw appends is never left).
C1_FillLoopReachesExit ==
    tips.pc = "fill" =>
        \/ Len(tips.selected) >= tips.count
        \/ \E c \in 1..Len(tips.categories), n \in 1..TipsPerCategory :
              EcoTips[tips.categories[c]][n] \notin Range(tips.selected)

\* C2: the list get_personalized_tips(category, count=N) returns for a valid
\* category filter has at most N elements.
C2_AtMostCount ==
    (ret.op = "get_personalized_tips" /\ ret.status = "ok") =>
        Len(ret.value) <= ret.arg[2]

\* the log of a category as the file holds it
PersistedLog(file, k) ==
    IF file.kind = "json" /\ k \in DOMAIN JsonLoad(file.doc)
    THEN JsonLoad(file.doc)[k] ELSE <<>>

\* C3: an entry once written to carbon_footprint.json is never removed or
\* altered: every step leaves each persisted category log as it was or
\* appends entries at its end.
C3_PersistedOnlyAppended ==
    [][\A k \in CategoryKeys :
          IsPrefix(PersistedLog(disk, k), PersistedLog(disk', k))]_vars

\* C4: a tracking call whose save fails does not raise: it returns its
\* confirmation, its entry is the last of the in-memory log, and every later
\* call on the same instance leaves the in-memory logs as they are or appends
\* to them.
C4_FailedWriteKeepsEntry ==
    [][/\ (ret'.op \in TrackOps /\ ret'.write \in {"fail_clean", "fail_partial"}) =>
            /\ ret'.status = "ok"
            /\ TrackKey(ret'.op) \in DOMAIN carbon_data'[ret'.agent]
            /\ Len(carbon_data'[ret'.agent][TrackKey(ret'.op)]) > 0
            /\ Last(carbon_data'[ret'.agent][TrackKey(ret'.op)]) = ret'.value
       /\ ret'.op # "init" =>
            \A a \in Agents : \A k \in DOMAIN carbon_data[a] :
                /\ k \in DOMAIN carbon_data'[a]
                /\ IsPrefix(carbon_data[a][k], carbon_data'[a][k])]_vars

\* a summary returned after a save failed counts the entry that was not saved
C4_Witness ==
    /\ ret.op = "get_carbon_footprint_summary"
    /\ ret.status = "ok"
    /\ lastWrite[1] = "fail_partial"
    /\ disk.kind = "corrupt"
    /\ ret.value.food > 0

\* the calls a user input error rejects
BadCall(r) ==
    \/ r.op = "track_transportation" /\ r.arg[1] \notin DOMAIN TransportFactors
    \/ /\ r.op = "track_energy_usage"
       /\ \/ r.arg[1] \notin DOMAIN EnergyFactors
          \/ r.arg[2] # "kWh" /\ ~(r.arg[2] = "therms" /\ r.arg[1] = "natural_gas")
    \/ /\ r.op \in {"get_carbon_footprint_summary", "generate_report"}
       /\ r.arg[1] \notin {"week", "month", "year"}
    \/ /\ r.op = "get_personalized_tips"
       /\ r.arg[1] # None
       /\ r.arg[1] \notin CategoryKeys
    \/ /\ r.op = "recommend_sustainable_products"
       /\ r.arg[1] # None
       /\ r.arg[1] \notin Range(ProductKeys)

\* C5: a call rejected for a user input error returns a message instead of
\* raising and leaves the in-memory record set and both files as they were.
C5_RejectedChangesNothing ==
    [][BadCall(ret') =>
          /\ ret'.status = "rejected"
          /\ UNCHANGED <<carbon_data, disk, prefsDisk, user_preferences, lastWrite>>]_vars

C5_Witness ==
    /\ ret.op = "track_energy_usage"
    /\ ret.arg = <<"electricity", "therms">>
    /\ ret.status = "rejected"
    /\ TotalEntries(carbon_data[1]) > 0
    /\ disk.kind = "json"

\* C6: round trip: constructing an agent with a successful read, after the
\* last write of the instance before it succeeded, yields that instance's
\* in-memory record set: the same logs, entries, fields and order.
C6_RoundTrip ==
    [][(ret'.op = "init" /\ ret'.arg[1] = "ok" /\ alive[1] /\ lastWrite[1] = "ok") =>
          carbon_data'[1] = carbon_data[1]]_vars

C6_Witness ==
    /\ ret.op = "init"
    /\ ret.arg[1] = "ok"
    /\ ret.prev = "ok"
    /\ TotalEntries(carbon_data[1]) = MaxEntries
    /\ Len(carbon_data[1]["food"]) > 0

\* datetime.fromisoformat: the instant a date string stands for
ParseIso(date) ==
    <<1000 * date[1] + 100 * date[2] + 10 * date[3] + date[4],
      IF Len(date) > 4 THEN date[6] ELSE 0>>

\* the sum of the emissions of the entries of a log at or after an instant
WindowSum(k, log, start) ==
    LET inside == {i \in 1..Len(log) : InstantGeq(ParseIso(log[i].date), start)}
    IN  SumOver([i \in 1..Len(log) |-> EntryEmissions(k, log[i])], inside)

\* C7: a summary for week, month or year holds, per category, the sum of the
\* emissions of exactly the entries whose instant is at or after now minus
\* 7, 30 or 365 days, and its total is the sum of the four values returned.
C7_SummaryIsWindowSum ==
    (ret.op = "get_carbon_footprint_summary" /\ ret.status = "ok") =>
        LET start == MinusDays(ret.at, PeriodDays[ret.arg[1]])
            data == carbon_data[ret.agent]
        IN  /\ \A k \in CategoryKeys : ret.value[k] = WindowSum(k, data[k], start)
            /\ ret.value.total = ret.value.transportation + ret.value.energy
                                  + ret.value.food + ret.value.purchases

\* a week's summary that counts one of two journeys: the other is too old
C7_Witness ==
    /\ ret.op = "get_carbon_footprint_summary"
    /\ ret.status = "ok"
    /\ ret.arg = <<"week">>
    /\ Len(carbon_data[1]["transportation"]) = 2
    /\ ret.value.transportation = carbon_data[1]["transportation"][2].emissions
    /\ ret.value.transportation > 0
    /\ carbon_data[1]["transportation"][2].date = IsoFormat(MinusDays(ret.at, 7))

\* C8: after construction the in-memory record set holds the four category
\* logs, whatever the file held, and no later call ends in a fault.
C8_ConstructedWellFormed ==
    /\ \A a \in Agents : alive[a] => CategoryKeys \subseteq DOMAIN carbon_data[a]
    /\ ret.status # "fault"

\* the items of a track_food call whose type is a recognized food type
Recognized(items) ==
    SelectSeq(items, LAMBDA item : Get(item, "type", None) \in DOMAIN FoodFactors)

\* what a track_food call appends: one entry, the recognized items in order
FoodEntryShape(items, entry, before, after) ==
    /\ after = [before EXCEPT !["food"] = Append(@, entry)]
    /\ Len(entry.items) = Len(Recognized(items))
    /\ \A i \in 1..Len(entry.items) :
          /\ entry.items[i].type = Recognized(items)[i].type
          /\ entry.items[i].amount = Recognized(items)[i].amount
          /\ entry.items[i].local = Recognized(items)[i].local
          /\ entry.items[i].organic = Recognized(items)[i].organic
          /\ entry.items[i].emissions = Round2(FoodItemNum(Recognized(items)[i]), FoodDen)

\* C9, as claimed: every track_food call appends one composite entry whose
\* items are the recognized input items in order, and whose total_emissions
\* is the sum of the emissions values recorded for those items.
C9_TotalIsSumOfRecorded ==
    [][ret'.op = "track_food" =>
          /\ FoodEntryShape(ret'.arg, ret'.value, carbon_data[1], carbon_data'[1])
          /\ ret'.value.total_emissions =
                SumOver([i \in 1..Len(ret'.value.items) |-> ret'.value.items[i].emissions],
                        1..Len(ret'.value.items))]_vars

\* C9, amended: every track_food call appends one composite entry whose items
\* are the recognized input items in order, each with its own emissions
\* rounded to 2 decimals, and whose total_emissions is the sum of the items'
\* emissions before rounding, rounded to 2 decimals.
C9_TotalIsRoundedSum ==
    [][ret'.op = "track_food" =>
          /\ FoodEntryShape(ret'.arg, ret'.value, carbon_data[1], carbon_data'[1])
          /\ ret'.value.total_emissions =
                Round2(SumOver([i \in 1..Len(Recognized(ret'.arg)) |->
                                   FoodItemNum(Recognized(ret'.arg)[i])],
                               1..Len(Recognized(ret'.arg))), FoodDen)]_vars

\* two items of 0.154 kg CO2e each are recorded as 0.15 and 0.15 and their
\* total as 0.31, after a call none of whose items was recognized
C9_Witness ==
    /\ ret.op = "track_food"
    /\ ret.arg = <<FruitItem, FruitItem>>
    /\ Len(carbon_data[1]["food"]) = 2
    /\ Last(carbon_data[1]["food"]) = ret.value
    /\ ret.value.total_emissions = 31
    /\ ret.value.items[1].emissions = 15
    /\ ret.value.items[2].emissions = 15
    /\ Len(carbon_data[1]["food"][1].items) = 0
    /\ carbon_data[1]["food"][1].total_emissions = 0

\* the value preferences.items() gives a key
Given(preferences, k) ==
    preferences[CHOOSE i \in 1..Len(preferences) : preferences[i][1] = k][2]

\* C10: set_user_preferences(p) sets the keys that are in p and in the current
\* preferences to p's values, leaves every other key as it is, adds and
\* removes no key, and writes the merged preferences to preferences.json.
C10_MergeKnownKeys ==
    [][ret'.op = "set_user_preferences" =>
          LET p == ret'.arg
              old == user_preferences[1]
              new == user_preferences'[1]
          IN  /\ DOMAIN new = DOMAIN old
              /\ \A k \in DOMAIN old :
                    new[k] = IF \E i \in 1..Len(p) : p[i][1] = k
                             THEN Given(p, k) ELSE old[k]
              /\ ret'.write \in IoOutcomes
              /\ ret'.write = "ok" =>
                    /\ prefsDisk'.kind = "json"
                    /\ JsonLoad(prefsDisk'.doc) = new]_vars

C10_Witness ==
    /\ ret.op = "set_user_preferences"
    /\ ret.arg = <<<<"home_type", "house">>, <<"color", "green">>>>
    /\ ret.write = "ok"
    /\ DOMAIN user_preferences[1] = DOMAIN DefaultPreferences
    /\ user_preferences[1]["home_type"] = "house"
    /\ user_preferences[1]["diet_type"] = "vegetarian"
    /\ "color" \notin DOMAIN user_preferences[1]
    /\ JsonLoad(prefsDisk.doc) = user_preferences[1]

\* the five purchase categories
FiveCategories == {"clothing", "electronics", "furniture", "household", "hobby"}

\* the category a purchase is to be recorded under
Normalized(category) ==
    IF Lower(category) \in FiveCategories THEN Lower(category) ELSE "household"

\* C11: track_purchase never rejects a category: every call returns its
\* confirmation and appends exactly one entry to the purchases log, whose
\* category is the lower-cased category when that is one of the five and
\* "household" otherwise, the fallback with the household factor (0.40 kg per
\* dollar, 0.28 kg when eco-friendly, in hundredths of a kg); and every entry
\* of the purchases log has a category among the five.
C11_PurchaseNeverRejected ==
    /\ [](\A i \in 1..Len(carbon_data[1]["purchases"]) :
            carbon_data[1]["purchases"][i].category \in FiveCategories)
    /\ [][ret'.op = "track_purchase" =>
            /\ ret'.status = "ok"
            /\ carbon_data'[1] =
                  [carbon_data[1] EXCEPT !["purchases"] = Append(@, ret'.value)]
            /\ ret'.value.category = Normalized(ret'.arg[1])
            /\ Normalized(ret'.arg[1]) = "household" =>
                  ret'.value.emissions =
                      IF ret'.value.eco_friendly
                      THEN 28 * ret'.value.price
                      ELSE 40 * ret'.value.price]_vars

\* an eco-friendly "Garden" purchase of 10 dollars recorded as household with
\* 2.8 kg, after a "Clothing" purchase recorded as clothing
C11_Witness ==
    /\ ret.op = "track_purchase"
    /\ ret.arg = <<"Garden">>
    /\ ret.status = "ok"
    /\ Len(carbon_data[1]["purchases"]) = 2
    /\ carbon_data[1]["purchases"][1].category = "clothing"
    /\ carbon_data[1]["purchases"][2] = ret.value
    /\ ret.value.category = "household"
    /\ ret.value.eco_friendly
    /\ ret.value.emissions = 280

\* an entry of the persisted file is gone from it after the step
EntryLost(k) ==
    \E i \in 1..Len(PersistedLog(disk, k)) :
        PersistedLog(disk, k)[i] \notin Range(PersistedLog(disk', k))

\* C12: lost update: a step after which an entry that was written to
\* carbon_footprint.json is absent from it happens only when two agent
\* instances exist, and is the successful write of a tracking call by an
\* instance whose in-memory record set did not hold that entry (the other
\* instance tracked and wrote it); while a single instance exists, no step
\* removes a persisted entry.
C12_LostUpdateNeedsTwoWriters ==
    [][\A k \in CategoryKeys :
          EntryLost(k) =>
              /\ alive[1] /\ alive[2]
              /\ ret'.op \in TrackOps
              /\ ret'.write = "ok"
              /\ \E i \in 1..Len(PersistedLog(disk, k)) :
                    /\ PersistedLog(disk, k)[i] \notin Range(PersistedLog(disk', k))
                    /\ PersistedLog(disk, k)[i] \notin Range(carbon_data[ret'.agent][k])
                    /\ \E b \in Agents \ {ret'.agent} :
                          PersistedLog(disk, k)[i] \in Range(carbon_data[b][k])]_vars

\* the lost update: instance 1 tracked a journey and wrote it, instance 2
\* then tracked energy and wrote, and the file no longer holds the journey
C12_Witness ==
    /\ alive[1] /\ alive[2]
    /\ ret.op = "track_energy_usage"
    /\ ret.agent = 2
    /\ ret.write = "ok"
    /\ lastWrite[1] = "ok"
    /\ Len(carbon_data[1]["transportation"]) = 1
    /\ disk.kind = "json"
    /\ carbon_data[1]["transportation"][1] \notin Range(PersistedLog(disk, "transportation"))
    /\ PersistedLog(disk, "energy") = <<ret.value>>

\* the emissions of a category over the 30 days before an instant
MonthEmissions(data, k, at) == WindowSum(k, data[k], MinusDays(at, 30))

\* the category whose tip pool holds a tip
PoolOf(tip) == CHOOSE k \in CategoryKeys : tip \in Range(EcoTips[k])

\* C13: get_personalized_tips draws its tips by the categories' emissions of
\* the month before the call, highest first: without a filter and with a
\* count from 1 to 4 it returns count tips, the i-th from the pool of a
\* category of rank i (fewer than i categories emit more, at least i emit as
\* much or more), no category twice; with a filter every tip is of the
\* filtered category; and no tip is returned twice.
C13_TipsFollowMonthRanking ==
    [][(/\ ret.op = "get_personalized_tips" /\ ret.status = "running"
        /\ ret'.op = "get_personalized_tips" /\ ret'.status = "ok") =>
          LET category == ret'.arg[1]
              count == ret'.arg[2]
              returned == ret'.value
              month == [k \in CategoryKeys |->
                          MonthEmissions(carbon_data[ret'.agent], k, ret.at)]
          IN  /\ (category = None /\ count \in 1..4) =>
                    /\ Len(returned) = count
                    /\ \A i \in 1..Len(returned) :
                          LET c == PoolOf(returned[i])
                          IN  /\ Cardinality({k \in CategoryKeys : month[k] > month[c]}) < i
                              /\ Cardinality({k \in CategoryKeys : month[k] >= month[c]}) >= i
                    /\ \A i, j \in 1..Len(returned) :
                          i # j => PoolOf(returned[i]) # PoolOf(returned[j])
              /\ category # None =>
                    \A i \in 1..Len(returned) : returned[i] \in Range(EcoTips[category])
              /\ \A i, j \in 1..Len(returned) : i # j => returned[i] # returned[j]]_vars

\* two tips without a filter, a journey this month and a purchase more than
\* a month old: the first tip is a transportation tip, the second an energy
\* tip (energy, food and purchases all count 0), although the purchase is
\* the largest entry of the record set
C13_Witness ==
    /\ ret.op = "get_personalized_tips"
    /\ ret.status = "ok"
    /\ ret.arg = <<None, 2>>
    /\ Len(ret.value) = 2
    /\ ret.value[1] \in Range(EcoTips["transportation"])
    /\ ret.value[2] \in Range(EcoTips["energy"])
    /\ Len(carbon_data[1]["purchases"]) = 1
    /\ Len(carbon_data[1]["transportation"]) = 1
    /\ carbon_data[1]["purchases"][1].emissions
          > carbon_data[1]["transportation"][1].emissions
    /\ carbon_data[1]["transportation"][1].date = IsoFormat(ret.at)

====
